---- MODULE Spec2Model ----
(***************************************************************************)
(* Conversions between the kernel (logical) schema types and the arrow     *)
(* (physical) types, kernel/src/engine/arrow_conversion.rs.                *)
(*                                                                         *)
(* Every conversion is a pure function from an immutable value tree to a   *)
(* Result.  The trees are records; the conversions are operators computed  *)
(* arm by arm as the match expressions of the source compute them.  The    *)
(* state machine applies the conversions to inputs drawn from bounded      *)
(* sets and keeps the chain of values in hist.                             *)
(***************************************************************************)
EXTENDS Integers, Sequences, FiniteSets, TLC

VARIABLES hist, res

vars == <<hist, res>>

(***************************************************************************)
(* Bounds of the model.                                                    *)
(***************************************************************************)
\* nesting depth of the generated type trees
MaxDepth == 2
\* number of fields of a generated struct
MaxFields == 3
\* number of conversions chained on one input
MaxSteps == 2

(***************************************************************************)
(* Integer widths of the source: precision is a u8, an arrow scale an i8,  *)
(* a kernel scale a u8.                                                    *)
(***************************************************************************)
U8 == 0..255
I8 == -128..127
AsI8(x) == IF x % 256 >= 128 THEN (x % 256) - 256 ELSE x % 256
AsU8(x) == x % 256

(***************************************************************************)
(* Strings that the code inspects (timezones) are sequences of characters. *)
(***************************************************************************)
UpperChars == <<"A","B","C","D","E","F","G","H","I","J","K","L","M",
                "N","O","P","Q","R","S","T","U","V","W","X","Y","Z">>
LowerChars == <<"a","b","c","d","e","f","g","h","i","j","k","l","m",
                "n","o","p","q","r","s","t","u","v","w","x","y","z">>

\* u8::to_ascii_lowercase: only A-Z change
ToAsciiLowercase(c) ==
  IF \E i \in 1..Len(UpperChars) : UpperChars[i] = c
  THEN LowerChars[CHOOSE i \in 1..Len(UpperChars) : UpperChars[i] = c]
  ELSE c

\* str::eq_ignore_ascii_case
EqIgnoreAsciiCase(a, b) ==
  /\ Len(a) = Len(b)
  /\ \A i \in 1..Len(a) : ToAsciiLowercase(a[i]) = ToAsciiLowercase(b[i])

UTC == <<"U","T","C">>
utc == <<"u","t","c">>

None == [some |-> FALSE]
Some(v) == [some |-> TRUE, v |-> v]

(***************************************************************************)
(* Results.                                                                *)
(***************************************************************************)
Ok(v) == [tag |-> "Ok", val |-> v]
Err(e) == [tag |-> "Err", err |-> e]
\* a panic unwinds out of the conversion: no value, no ArrowError
Panic(msg) == [tag |-> "Panic", msg |-> msg]
IsOk(r) == r.tag = "Ok"
IsErr(r) == r.tag = "Err"
IsPanic(r) == r.tag = "Panic"

\* ArrowError::SchemaError("Invalid data type for Delta Lake: ..")
SchemaError == [variant |-> "SchemaError"]
\* ArrowError::from_external_error(Error::invalid_decimal(..))
InvalidDecimal == [variant |-> "ExternalError", cause |-> "InvalidDecimal"]
\* the struct constructor's rejection of a field list
SchemaConstructionError == [variant |-> "ExternalError", cause |-> "Schema"]

(***************************************************************************)
(* Constants of the source.                                                *)
(***************************************************************************)
LIST_ARRAY_ROOT == "item"
MAP_ROOT_DEFAULT == "key_value"
MAP_KEY_DEFAULT == "key"
MAP_VALUE_DEFAULT == "value"

(***************************************************************************)
(* Kernel (logical) types.                                                 *)
(***************************************************************************)
SimplePrimitives ==
  {"String", "Long", "ULong", "Integer", "UInteger", "Short", "UShort",
   "Byte", "UByte", "Float", "Double", "Boolean", "Binary", "Date",
   "Timestamp", "TimestampNs", "TimestampNtz"}

Primitive(k) == [tag |-> "Primitive", p |-> [k |-> k]]
DecimalOf(p, s) ==
  [tag |-> "Primitive", p |-> [k |-> "Decimal", precision |-> p, scale |-> s]]
StructOf(fs) == [tag |-> "Struct", fields |-> fs]
ArrayOf(t, n) == [tag |-> "Array", element_type |-> t, contains_null |-> n]
MapOf(k, v, n) ==
  [tag |-> "Map", key_type |-> k, value_type |-> v, value_contains_null |-> n]
DictionaryOf(k, v, o) ==
  [tag |-> "Dictionary", key_type |-> k, value_type |-> v, ordered |-> o]
StructField(n, t, nl, md) ==
  [name |-> n, data_type |-> t, nullable |-> nl, metadata |-> md]

\* MetadataValue
MdString(s) == [t |-> "String", s |-> s]
MdNumber(n) == [t |-> "Number", n |-> n]
MdBoolean(b) == [t |-> "Boolean", b |-> b]
\* MetadataValue::Other(serde_json::Value), the value held by its JSON text
MdOther(j) == [t |-> "Other", json |-> j]

\* DataType::decimal / DecimalType::try_new: the range-checked constructor
DataTypeDecimal(p, s) ==
  IF p >= 1 /\ p <= 38 /\ s >= 0 /\ s <= 38
  THEN Ok(DecimalOf(p, s))
  ELSE Err(InvalidDecimal)

(***************************************************************************)
(* Arrow (physical) types.                                                 *)
(***************************************************************************)
Arrow(t) == [tag |-> t]
Decimal128(p, s) == [tag |-> "Decimal128", precision |-> p, scale |-> s]
Decimal256(p, s) == [tag |-> "Decimal256", precision |-> p, scale |-> s]
FixedSizeBinary(n) == [tag |-> "FixedSizeBinary", size |-> n]
ArrowTimestamp(u, tz) == [tag |-> "Timestamp", unit |-> u, tz |-> tz]
ArrowStruct(fs) == [tag |-> "Struct", fields |-> fs]
ArrowListLike(kind, f) == [tag |-> kind, field |-> f]
FixedSizeList(f, n) == [tag |-> "FixedSizeList", field |-> f, size |-> n]
ArrowMap(f, sorted) == [tag |-> "Map", field |-> f, sorted |-> sorted]
ArrowDictionary(k, v) == [tag |-> "Dictionary", key_type |-> k, value_type |-> v]
ArrowField(n, t, nl, md) ==
  [name |-> n, data_type |-> t, nullable |-> nl, metadata |-> md]
NoMetadata == [k \in {} |-> ""]

TimeUnits == {"Second", "Millisecond", "Microsecond", "Nanosecond"}


(***************************************************************************)
(* Helpers over sequences of results.                                      *)
(***************************************************************************)
\* position of the first result that is not Ok, 0 when all are Ok
FirstFailure(rs) ==
  IF \E i \in 1..Len(rs) : ~IsOk(rs[i])
  THEN CHOOSE i \in 1..Len(rs) :
         ~IsOk(rs[i]) /\ \A j \in 1..(i - 1) : IsOk(rs[j])
  ELSE 0

Vals(rs) == [i \in 1..Len(rs) |-> rs[i].val]

\* Iterator<Item = Result<T, E>>::try_collect / collect::<Result<Vec<_>, _>>:
\* the items are taken in order and the first failure ends the collection
TryCollect(rs) ==
  IF FirstFailure(rs) = 0 THEN Ok(Vals(rs)) ELSE rs[FirstFailure(rs)]

DistinctNames(fs) ==
  \A i, j \in 1..Len(fs) : fs[i].name = fs[j].name => i = j

\* StructType::try_new / DataType::try_struct_type: the fields are collected
\* in order, the first failure is returned, and the constructor rejects a
\* field list that names a field twice
StructTypeTryNew(rs) ==
  IF FirstFailure(rs) # 0 THEN rs[FirstFailure(rs)]
  ELSE IF ~DistinctNames(Vals(rs)) THEN Err(SchemaConstructionError)
  ELSE Ok([fields |-> Vals(rs)])

(***************************************************************************)
(* Kernel -> arrow.                                                        *)
(***************************************************************************)
\* serde_json::to_string of a MetadataValue (an untagged enum)
JsonToString(val) ==
  CASE val.t = "String" -> "\"" \o val.s \o "\""
    [] val.t = "Number" -> ToString(val.n)
    [] val.t = "Boolean" -> (IF val.b THEN "true" ELSE "false")
    [] val.t = "Other" -> val.json

\* MetadataValueToArrow without its String arm: every value is serialized,
\* so a string arrives quoted
MetadataValueToArrow_AlwaysJson(val) == JsonToString(val)

\* the closure of the metadata map: a string passes through, anything else
\* is replaced by its JSON text
MetadataValueToArrow(val) ==
  IF val.t = "String" THEN val.s ELSE JsonToString(val)

MetadataToArrow(md) == [k \in DOMAIN md |-> MetadataValueToArrow(md[k])]

\* the primitive arm of TryFrom<&DataType> for ArrowDataType
PrimitiveToArrow(p) ==
  CASE p.k = "String" -> Arrow("Utf8")
    [] p.k = "Long" -> Arrow("Int64")
    [] p.k = "ULong" -> Arrow("UInt64")
    [] p.k = "Integer" -> Arrow("Int32")
    [] p.k = "UInteger" -> Arrow("UInt32")
    [] p.k = "Short" -> Arrow("Int16")
    [] p.k = "UShort" -> Arrow("UInt16")
    [] p.k = "Byte" -> Arrow("Int8")
    [] p.k = "UByte" -> Arrow("UInt8")
    [] p.k = "Float" -> Arrow("Float32")
    [] p.k = "Double" -> Arrow("Float64")
    [] p.k = "Boolean" -> Arrow("Boolean")
    [] p.k = "Binary" -> Arrow("Binary")
    [] p.k = "Decimal" -> Decimal128(p.precision, AsI8(p.scale))
    [] p.k = "Date" -> Arrow("Date32")
    [] p.k = "Timestamp" -> ArrowTimestamp("Microsecond", Some(UTC))
    [] p.k = "TimestampNs" -> ArrowTimestamp("Nanosecond", Some(UTC))
    [] p.k = "TimestampNtz" -> ArrowTimestamp("Microsecond", None)

\* ArrowField::new(f.name(), <type>, f.is_nullable()).with_metadata(metadata)
NewArrowField(f, t, md) == ArrowField(f.name, t, f.nullable, md)

\* ListItemField with the element field always nullable
ListItemField_AlwaysNullable(a, t) == ArrowField(LIST_ARRAY_ROOT, t, TRUE, NoMetadata)

\* ArrowField::new(LIST_ARRAY_ROOT, <element type>, a.contains_null())
ListItemField(a, t) == ArrowField(LIST_ARRAY_ROOT, t, a.contains_null, NoMetadata)

\* MapEntriesField with the key field given the value's nullability
MapEntriesField_NullableKey(m, k, v) ==
  ArrowField(MAP_ROOT_DEFAULT,
             ArrowStruct(<<ArrowField(MAP_KEY_DEFAULT, k, m.value_contains_null,
                                      NoMetadata),
                           ArrowField(MAP_VALUE_DEFAULT, v, m.value_contains_null,
                                      NoMetadata)>>),
             FALSE, NoMetadata)

\* the entries field of a map: key_value: struct<key not null, value>
MapEntriesField(m, k, v) ==
  ArrowField(MAP_ROOT_DEFAULT,
             ArrowStruct(<<ArrowField(MAP_KEY_DEFAULT, k, FALSE, NoMetadata),
                           ArrowField(MAP_VALUE_DEFAULT, v, m.value_contains_null,
                                      NoMetadata)>>),
             FALSE, NoMetadata)

RECURSIVE DataTypeToArrow(_), StructFieldToArrow(_)

\* TryFrom<&ArrayType> for ArrowField
ArrayTypeToArrowField(a) ==
  LET t == DataTypeToArrow(a.element_type)
  IN  IF ~IsOk(t) THEN t ELSE Ok(ListItemField(a, t.val))

\* TryFrom<&MapType> for ArrowField
MapTypeToArrowField(m) ==
  LET k == DataTypeToArrow(m.key_type)
      v == DataTypeToArrow(m.value_type)
  IN  IF ~IsOk(k) THEN k
      ELSE IF ~IsOk(v) THEN v
      ELSE Ok(MapEntriesField(m, k.val, v.val))

\* TryFrom<&DictionaryType> for ArrowDataType, and the Dictionary arm
DictionaryTypeToArrow(d) ==
  LET k == DataTypeToArrow(d.key_type)
      v == DataTypeToArrow(d.value_type)
  IN  IF ~IsOk(k) THEN k
      ELSE IF ~IsOk(v) THEN v
      ELSE Ok(ArrowDictionary(k.val, v.val))

\* TryFrom<&StructField> for ArrowField
StructFieldToArrow(f) ==
  LET t == DataTypeToArrow(f.data_type)
  IN  IF ~IsOk(t) THEN t
      ELSE Ok(NewArrowField(f, t.val, MetadataToArrow(f.metadata)))

\* TryFrom<&DataType> for ArrowDataType
DataTypeToArrow(t) ==
  CASE t.tag = "Primitive" -> Ok(PrimitiveToArrow(t.p))
    [] t.tag = "Struct" ->
         LET fs == TryCollect([i \in 1..Len(t.fields) |->
                                 StructFieldToArrow(t.fields[i])])
         IN  IF ~IsOk(fs) THEN fs ELSE Ok(ArrowStruct(fs.val))
    [] t.tag = "Array" ->
         LET f == ArrayTypeToArrowField(t)
         IN  IF ~IsOk(f) THEN f ELSE Ok(ArrowListLike("List", f.val))
    [] t.tag = "Map" ->
         LET f == MapTypeToArrowField(t)
         IN  IF ~IsOk(f) THEN f ELSE Ok(ArrowMap(f.val, FALSE))
    [] t.tag = "Dictionary" -> DictionaryTypeToArrow(t)

\* TryFrom<&StructType> for ArrowSchema
StructTypeToArrowSchema(s) ==
  LET fs == TryCollect([i \in 1..Len(s.fields) |-> StructFieldToArrow(s.fields[i])])
  IN  IF ~IsOk(fs) THEN fs ELSE Ok([fields |-> fs.val])

(***************************************************************************)
(* Arrow -> kernel.                                                        *)
(***************************************************************************)
\* Decimal128ToDataType with precision and scale passed in the wrong order
Decimal128ToDataType_Swapped(p, s) ==
  IF s < 0 THEN Err(InvalidDecimal) ELSE DataTypeDecimal(AsU8(s), p)

\* Decimal128ToDataType without the sign check, taking the scale's magnitude
Decimal128ToDataType_AbsScale(p, s) ==
  DataTypeDecimal(p, IF s < 0 THEN 0 - s ELSE s)

\* the Decimal128 arm
Decimal128ToDataType(p, s) ==
  IF s < 0 THEN Err(InvalidDecimal) ELSE DataTypeDecimal(p, AsU8(s))

\* TimestampToDataType comparing the timezone with "UTC" exactly
TimestampToDataType_CaseSensitive(unit, tz) ==
  CASE unit = "Microsecond" /\ ~tz.some -> Ok(Primitive("TimestampNtz"))
    [] unit = "Microsecond" /\ tz.some /\ tz.v = UTC -> Ok(Primitive("Timestamp"))
    [] unit = "Nanosecond" /\ ~tz.some -> Ok(Primitive("TimestampNs"))
    [] unit = "Nanosecond" /\ tz.some /\ tz.v = UTC -> Ok(Primitive("TimestampNs"))
    [] OTHER -> Err(SchemaError)

\* the four Timestamp arms, and the fallback arm for every other timestamp
TimestampToDataType(unit, tz) ==
  CASE unit = "Microsecond" /\ ~tz.some -> Ok(Primitive("TimestampNtz"))
    [] unit = "Microsecond" /\ tz.some /\ EqIgnoreAsciiCase(tz.v, utc) ->
         Ok(Primitive("Timestamp"))
    [] unit = "Nanosecond" /\ ~tz.some -> Ok(Primitive("TimestampNs"))
    [] unit = "Nanosecond" /\ tz.some /\ EqIgnoreAsciiCase(tz.v, utc) ->
         Ok(Primitive("TimestampNs"))
    [] OTHER -> Err(SchemaError)

\* the arms of TryFrom<&ArrowDataType> for DataType without a child type
ArrowLeafToDataType(t) ==
  CASE t.tag \in {"Utf8", "LargeUtf8", "Utf8View"} -> Ok(Primitive("String"))
    [] t.tag = "Int64" -> Ok(Primitive("Long"))
    [] t.tag = "UInt64" -> Ok(Primitive("ULong"))
    [] t.tag = "Int32" -> Ok(Primitive("Integer"))
    [] t.tag = "UInt32" -> Ok(Primitive("UInteger"))
    [] t.tag = "Int16" -> Ok(Primitive("Short"))
    [] t.tag = "UInt16" -> Ok(Primitive("UShort"))
    [] t.tag = "Int8" -> Ok(Primitive("Byte"))
    [] t.tag = "UInt8" -> Ok(Primitive("UByte"))
    [] t.tag = "Float32" -> Ok(Primitive("Float"))
    [] t.tag = "Float64" -> Ok(Primitive("Double"))
    [] t.tag = "Boolean" -> Ok(Primitive("Boolean"))
    [] t.tag \in {"Binary", "FixedSizeBinary", "LargeBinary", "BinaryView"} ->
         Ok(Primitive("Binary"))
    [] t.tag = "Decimal128" -> Decimal128ToDataType(t.precision, t.scale)
    [] t.tag \in {"Date32", "Date64"} -> Ok(Primitive("Date"))
    [] t.tag = "Timestamp" -> TimestampToDataType(t.unit, t.tz)
    [] OTHER -> Err(SchemaError)

ListLikeTags == {"List", "ListView", "LargeList", "LargeListView", "FixedSizeList"}

\* ArrayType::new(<element type>, field.is_nullable())
NewArrayType(f, t) == ArrayOf(t, f.nullable)

\* MapType::new(key_type, value_type, struct_fields[1].is_nullable())
NewMapType(struct_fields, k, v) == MapOf(k, v, struct_fields[2].nullable)

\* NewDictionaryType leaving the dictionary unordered
NewDictionaryType_Unordered(k, v) == DictionaryOf(k, v, FALSE)

\* DictionaryType::new(key_type, value_type, true)
NewDictionaryType(k, v) == DictionaryOf(k, v, TRUE)

\* NewStructField making every field nullable
NewStructField_AlwaysNullable(f, t) ==
  StructField(f.name, t, TRUE,
              [k \in DOMAIN f.metadata |-> MdString(f.metadata[k])])

\* StructField::new(name, <type>, nullable).with_metadata(<every entry>):
\* each value arrives as a &String and becomes MetadataValue::String
NewStructField(f, t) ==
  StructField(f.name, t, f.nullable,
              [k \in DOMAIN f.metadata |-> MdString(f.metadata[k])])

RECURSIVE ArrowToDataType(_), ArrowFieldToStructField(_)

\* the Map arm: the child must be a struct, struct_fields[0] and [1] are
\* indexed (out of bounds panics), the key is converted before [1] is read
ArrowMapToDataType(t) ==
  IF t.field.data_type.tag # "Struct"
  THEN Panic("DataType::Map should contain a struct field child")
  ELSE LET struct_fields == t.field.data_type.fields
       IN  IF Len(struct_fields) < 1 THEN Panic("index out of bounds")
           ELSE LET k == ArrowToDataType(struct_fields[1].data_type)
                IN  IF ~IsOk(k) THEN k
                    ELSE IF Len(struct_fields) < 2 THEN Panic("index out of bounds")
                    ELSE LET v == ArrowToDataType(struct_fields[2].data_type)
                         IN  IF ~IsOk(v) THEN v
                             ELSE Ok(NewMapType(struct_fields, k.val, v.val))

\* TryFrom<&ArrowField> for StructField
ArrowFieldToStructField(f) ==
  LET t == ArrowToDataType(f.data_type)
  IN  IF ~IsOk(t) THEN t ELSE Ok(NewStructField(f, t.val))

\* TryFrom<&ArrowDataType> for DataType
ArrowToDataType(t) ==
  CASE t.tag = "Struct" ->
         LET s == StructTypeTryNew([i \in 1..Len(t.fields) |->
                                      ArrowFieldToStructField(t.fields[i])])
         IN  IF ~IsOk(s) THEN s ELSE Ok(StructOf(s.val.fields))
    [] t.tag \in ListLikeTags ->
         LET e == ArrowToDataType(t.field.data_type)
         IN  IF ~IsOk(e) THEN e ELSE Ok(NewArrayType(t.field, e.val))
    [] t.tag = "Map" -> ArrowMapToDataType(t)
    [] t.tag = "Dictionary" ->
         LET k == ArrowToDataType(t.key_type)
         IN  IF ~IsOk(k) THEN k
             ELSE LET v == ArrowToDataType(t.value_type)
                  IN  IF ~IsOk(v) THEN v ELSE Ok(NewDictionaryType(k.val, v.val))
    [] OTHER -> ArrowLeafToDataType(t)

\* ArrowSchemaToStructType keeping the fields that convert and dropping the
\* others
ArrowSchemaToStructType_SkipsFailures(s) ==
  StructTypeTryNew(SelectSeq([i \in 1..Len(s.fields) |->
                                ArrowFieldToStructField(s.fields[i])], IsOk))

\* TryFrom<&ArrowSchema> for StructType (and for ArrowSchemaRef)
ArrowSchemaToStructType(s) ==
  StructTypeTryNew([i \in 1..Len(s.fields) |-> ArrowFieldToStructField(s.fields[i])])


(***************************************************************************)
(* Inputs.  A generated tree has one path of nested containers; the other  *)
(* children of a container are leaves.  The outermost container comes in   *)
(* every variety, the containers below it one for each place of a child.   *)
(***************************************************************************)
FieldName(i) == "f" \o ToString(i)

LeafTypes == {Primitive("String"), Primitive("Integer"), DecimalOf(10, 2)}

LeafMetadata(i) ==
  CASE i % 3 = 1 -> [k \in {"description"} |-> MdString("hello world")]
    [] i % 3 = 2 -> [k \in {} |-> MdString("")]
    [] i % 3 = 0 -> [k \in {"id", "flag", "note", "tags"} |->
                       CASE k = "id" -> MdNumber(42)
                         [] k = "flag" -> MdBoolean(TRUE)
                         [] k = "note" -> MdString("7")
                         [] k = "tags" -> MdOther("[\"a\",1]")]

\* the i-th leaf field of a struct: name: string not null, age: integer, ..
LeafField(i) ==
  StructField(FieldName(i),
              IF i % 2 = 1 THEN Primitive("String") ELSE Primitive("Integer"),
              i % 2 = 0, LeafMetadata(i))

\* field lists of at most MaxFields fields with distinct names, one of them
\* of a type of T
FieldLists(T) ==
  {<<>>} \cup
  {[i \in 1..n |-> IF i = pos
                   THEN StructField("col", t, pos % 2 = 1, LeafMetadata(n + pos))
                   ELSE LeafField(i)] :
     <<n, pos, t>> \in {x \in (1..MaxFields) \X (1..MaxFields) \X T : x[2] <= x[1]}}

\* the containers of the types of T, in every variety
Containers(T) ==
  {ArrayOf(t, b) : <<t, b>> \in T \X BOOLEAN}
  \cup {MapOf(Primitive("String"), t, b) : <<t, b>> \in T \X BOOLEAN}
  \cup {MapOf(t, Primitive("Integer"), FALSE) : t \in T}
  \cup {DictionaryOf(Primitive("Integer"), t, b) : <<t, b>> \in T \X BOOLEAN}
  \cup {DictionaryOf(t, Primitive("String"), TRUE) : t \in T}
  \cup {StructOf(fs) : fs \in FieldLists(T)}

\* one container for each place a child type can take
Wrappers(T) ==
  {ArrayOf(t, TRUE) : t \in T}
  \cup {MapOf(Primitive("String"), t, TRUE) : t \in T}
  \cup {MapOf(t, Primitive("Integer"), FALSE) : t \in T}
  \cup {DictionaryOf(Primitive("Integer"), t, TRUE) : t \in T}
  \cup {DictionaryOf(t, Primitive("String"), FALSE) : t \in T}
  \cup {StructOf(<<StructField("col", t, TRUE, LeafMetadata(1))>>) : t \in T}

\* the types nested below the outermost container, of depth at most d
RECURSIVE NestedTypes(_)
NestedTypes(d) ==
  IF d = 0 THEN LeafTypes ELSE LeafTypes \cup Wrappers(NestedTypes(d - 1))

\* the types of depth at most d, d >= 1
DataTypes(d) == LeafTypes \cup Containers(NestedTypes(d - 1))

StructTypes(d) == {[fields |-> fs] : fs \in FieldLists(NestedTypes(d - 1))}

StructFields(d) ==
  {StructField("col", t, b, LeafMetadata(i)) :
     <<t, b, i>> \in NestedTypes(d - 1) \X BOOLEAN \X (1..3)}

\* every kernel primitive: precision 1..=38, scale 0..=38
AllPrimitives ==
  {Primitive(k) : k \in SimplePrimitives}
  \cup {DecimalOf(p, s) : <<p, s>> \in (1..38) \X (0..38)}

ArrowLeafTypes == {Arrow("Utf8"), Arrow("Int32"), Arrow("Float16")}

ArrowLeafMetadata(i) ==
  IF i % 2 = 1 THEN [k \in {"description"} |-> "hello world"] ELSE NoMetadata

ArrowLeafField(i) ==
  ArrowField(FieldName(i),
             IF i % 2 = 1 THEN Arrow("Utf8") ELSE Arrow("Int32"),
             i % 2 = 0, ArrowLeafMetadata(i))

\* as FieldLists, and field lists that name a field twice
ArrowFieldLists(T) ==
  {<<>>} \cup
  {[i \in 1..n |-> IF i = pos
                   THEN ArrowField("col", t, pos % 2 = 1, ArrowLeafMetadata(n + pos))
                   ELSE ArrowLeafField(i)] :
     <<n, pos, t>> \in {x \in (1..MaxFields) \X (1..MaxFields) \X T : x[2] <= x[1]}}
  \cup {<<ArrowField("col", t, TRUE, NoMetadata),
          ArrowField("col", Arrow("Utf8"), FALSE, NoMetadata)>> : t \in T}

\* child fields of an arrow Map: the two-field struct, and every other shape
MapChildren(T) ==
  LET key(t) == ArrowField("key", t, FALSE, NoMetadata)
      value(t, b) == ArrowField("value", t, b, NoMetadata)
      extra(t) == ArrowField("extra", t, TRUE, NoMetadata)
      entries(fs) == ArrowField("entries", ArrowStruct(fs), FALSE, NoMetadata)
  IN  {entries(<<>>)}
      \cup {ArrowField("key_value", t, FALSE, NoMetadata) : t \in T}
      \cup {entries(<<key(t)>>) : t \in T}
      \cup {entries(<<key(t), value(Arrow("Int32"), b)>>) : <<t, b>> \in T \X BOOLEAN}
      \cup {entries(<<key(Arrow("Utf8")), value(t, TRUE)>>) : t \in T}
      \cup {entries(<<key(t), value(Arrow("Utf8"), TRUE), extra(Arrow("Int32"))>>) :
              t \in T}
      \cup {entries(<<key(Arrow("Utf8")), value(Arrow("Int32"), FALSE), extra(t)>>) :
              t \in T}

ArrowContainers(T) ==
  LET item(t, b) == ArrowField("item", t, b, NoMetadata)
      element(t, b) == ArrowField("element", t, b, NoMetadata)
  IN  {ArrowListLike("List", item(t, b)) : <<t, b>> \in T \X BOOLEAN}
      \cup {ArrowListLike("ListView", element(t, TRUE)) : t \in T}
      \cup {ArrowListLike("LargeList", element(t, FALSE)) : t \in T}
      \cup {ArrowListLike("LargeListView", item(t, TRUE)) : t \in T}
      \cup {FixedSizeList(element(t, FALSE), 2) : t \in T}
      \cup {ArrowMap(f, f.name = "entries") : f \in MapChildren(T)}
      \cup {ArrowDictionary(Arrow("Int32"), t) : t \in T}
      \cup {ArrowDictionary(t, Arrow("Utf8")) : t \in T}
      \cup {ArrowStruct(fs) : fs \in ArrowFieldLists(T)}

ArrowWrappers(T) ==
  LET key(t) == ArrowField("key", t, FALSE, NoMetadata)
      value(t) == ArrowField("value", t, TRUE, NoMetadata)
      entries(fs) == ArrowField("entries", ArrowStruct(fs), FALSE, NoMetadata)
  IN  {ArrowListLike("List", ArrowField("item", t, TRUE, NoMetadata)) : t \in T}
      \cup {ArrowListLike("LargeList", ArrowField("element", t, FALSE, NoMetadata)) :
              t \in T}
      \cup {ArrowMap(entries(<<key(Arrow("Utf8")), value(t)>>), FALSE) : t \in T}
      \cup {ArrowMap(entries(<<key(t), value(Arrow("Int32"))>>), TRUE) : t \in T}
      \cup {ArrowDictionary(Arrow("Int32"), t) : t \in T}
      \cup {ArrowDictionary(t, Arrow("Utf8")) : t \in T}
      \cup {ArrowStruct(<<ArrowField("col", t, TRUE, ArrowLeafMetadata(1))>>) : t \in T}

\* a map whose child is no struct, nested like a leaf
ArrowNestedLeaves ==
  ArrowLeafTypes
  \cup {ArrowMap(ArrowField("key_value", Arrow("Utf8"), FALSE, NoMetadata), FALSE)}

RECURSIVE ArrowNestedTypes(_)
ArrowNestedTypes(d) ==
  IF d = 0 THEN ArrowNestedLeaves
  ELSE ArrowNestedLeaves \cup ArrowWrappers(ArrowNestedTypes(d - 1))

ArrowDataTypes(d) == ArrowLeafTypes \cup ArrowContainers(ArrowNestedTypes(d - 1))

ArrowSchemas(d) == {[fields |-> fs] : fs \in ArrowFieldLists(ArrowNestedTypes(d - 1))}

ArrowFields(d) ==
  {ArrowField("col", t, b, ArrowLeafMetadata(i)) :
     <<t, b, i>> \in ArrowNestedTypes(d - 1) \X BOOLEAN \X (1..2)}

\* timezones of an arrow timestamp
Timezones ==
  {None, Some(UTC), Some(utc), Some(<<"U","t","c">>), Some(<<"u","T","C">>),
   Some(<<>>), Some(<<"U","T">>), Some(<<"U","T","C","+","1">>),
   Some(<<"G","M","T">>), Some(<<"+","0","0",":","0","0">>),
   Some(<<"E","u","r","o","p","e","/","O","s","l","o">>)}

\* every arrow type without a child: decimals of every u8 precision and
\* every i8 scale, timestamps of every unit and timezone
AllArrowLeaves ==
  {Arrow(t) : t \in {"Null", "Boolean", "Int8", "Int16", "Int32", "Int64", "UInt8",
                     "UInt16", "UInt32", "UInt64", "Float16", "Float32", "Float64",
                     "Date32", "Date64", "Binary", "LargeBinary", "BinaryView",
                     "Utf8", "LargeUtf8", "Utf8View"}}
  \cup {FixedSizeBinary(16)}
  \cup {[tag |-> "Time32", unit |-> "Second"], [tag |-> "Time64", unit |-> "Nanosecond"],
        [tag |-> "Duration", unit |-> "Microsecond"],
        [tag |-> "Interval", unit |-> "YearMonth"]}
  \cup {Decimal128(p, s) : <<p, s>> \in U8 \X I8}
  \cup {Decimal256(p, s) : <<p, s>> \in {<<10, 2>>, <<76, 0>>}}
  \cup {ArrowTimestamp(u, tz) : <<u, tz>> \in TimeUnits \X Timezones}

In(kind, S) == {[kind |-> kind, val |-> v] : v \in S}

\* kernel values and arrow values are kept in separate sets
KernelInputs(d) ==
  In("DataType", DataTypes(d))
  \cup In("StructType", StructTypes(d))
  \cup In("StructField", StructFields(d))

ArrowInputs(d) ==
  In("ArrowDataType", ArrowDataTypes(d))
  \cup In("ArrowSchema", ArrowSchemas(d))
  \cup In("ArrowField", ArrowFields(d))

(***************************************************************************)
(* The state machine: hist[1] is the input, each conversion that succeeds  *)
(* appends its value, res is the Result of the last conversion.            *)
(***************************************************************************)
NotRun == [tag |-> "None"]
Last == hist[Len(hist)]

Init ==
  /\ \/ hist \in {<<x>> : x \in KernelInputs(MaxDepth)}
     \/ hist \in {<<x>> : x \in ArrowInputs(MaxDepth)}
  /\ res = NotRun

InitPrimitive ==
  /\ \/ hist \in {<<x>> : x \in In("DataType", AllPrimitives)}
     \/ hist \in {<<x>> : x \in In("ArrowDataType", AllArrowLeaves)}
  /\ res = NotRun

CanConvert(kind) ==
  /\ Len(hist) <= MaxSteps
  /\ res.tag \in {"None", "Ok"}
  /\ Last.kind = kind

Converted(kind, r) ==
  /\ res' = r
  /\ hist' = IF IsOk(r) THEN Append(hist, [kind |-> kind, val |-> r.val]) ELSE hist

ConvertStructType ==
  /\ CanConvert("StructType")
  /\ Converted("ArrowSchema", StructTypeToArrowSchema(Last.val))

ConvertStructField ==
  /\ CanConvert("StructField")
  /\ Converted("ArrowField", StructFieldToArrow(Last.val))

ConvertDataType ==
  /\ CanConvert("DataType")
  /\ Converted("ArrowDataType", DataTypeToArrow(Last.val))

ConvertArrowSchema ==
  /\ CanConvert("ArrowSchema")
  /\ Converted("StructType", ArrowSchemaToStructType(Last.val))

ConvertArrowField ==
  /\ CanConvert("ArrowField")
  /\ Converted("StructField", ArrowFieldToStructField(Last.val))

ConvertArrowDataType ==
  /\ CanConvert("ArrowDataType")
  /\ Converted("DataType", ArrowToDataType(Last.val))

Next ==
  \/ ConvertStructType
  \/ ConvertStructField
  \/ ConvertDataType
  \/ ConvertArrowSchema
  \/ ConvertArrowField
  \/ ConvertArrowDataType

NextPrimitive ==
  \/ ConvertDataType
  \/ ConvertArrowDataType

Spec == Init /\ [][Next]_vars

SpecPrimitive == InitPrimitive /\ [][NextPrimitive]_vars


(***************************************************************************)
(* Vocabulary of the properties.                                           *)
(***************************************************************************)
KernelKinds == {"DataType", "StructField", "StructType"}
ArrowKinds == {"ArrowDataType", "ArrowField", "ArrowSchema"}

\* the type tree of a value of any kind
AsType(h) ==
  CASE h.kind \in {"DataType", "ArrowDataType"} -> h.val
    [] h.kind \in {"StructField", "ArrowField"} -> h.val.data_type
    [] h.kind = "StructType" -> StructOf(h.val.fields)
    [] h.kind = "ArrowSchema" -> ArrowStruct(h.val.fields)

\* the conversion of Last ran and failed
Failed == res.tag \in {"Err", "Panic"}

\* hist[i] was converted to hist[i + 1]
Steps == 1..(Len(hist) - 1)
ForwardSteps == {i \in Steps : hist[i].kind \in KernelKinds}
ReverseSteps == {i \in Steps : hist[i].kind \in ArrowKinds}

----------------------------------------------------------------------------
\* C1: every kernel primitive (decimal(p, s) for p in 1..38, s in 0..38
\* included) converts to arrow and back, both conversions succeed, and the
\* value that comes back is the primitive that went in.
C1_PrimitiveRoundTrip ==
  (hist[1].kind = "DataType" /\ hist[1].val.tag = "Primitive") =>
    /\ ~Failed
    /\ Len(hist) >= 3 => hist[3] = hist[1]

C1_Witness ==
  /\ Len(hist) = 3
  /\ hist[1].val = DecimalOf(10, 2)
  /\ hist[2].val = Decimal128(10, 2)
  /\ hist[3].val = DecimalOf(10, 2)

\* C2: an arrow decimal128(p, s) with s < 0 never converts: for every u8
\* precision the conversion ends with the InvalidDecimal error.
NegativeScale(h) ==
  h.kind = "ArrowDataType" /\ h.val.tag = "Decimal128" /\ h.val.scale < 0

C2_NegativeScaleRejected ==
  /\ \A i \in Steps : ~NegativeScale(hist[i])
  /\ (NegativeScale(Last) /\ res # NotRun) =>
       /\ IsErr(res)
       /\ res.err.variant = "ExternalError"
       /\ res.err.cause = "InvalidDecimal"

C2_Witness ==
  /\ hist[1].val = Decimal128(5, -1)
  /\ res = Err(InvalidDecimal)

\* C3: an arrow timestamp converts exactly when its unit is microsecond or
\* nanosecond and its timezone is absent or one of the spellings of "utc";
\* micro/none -> timestamp-ntz, micro/utc -> timestamp, nano/none and
\* nano/utc -> timestamp-ns; every other timestamp ends with the
\* unsupported-type error.
UtcSpellings ==
  {<<a, b, c>> : <<a, b, c>> \in {"u", "U"} \X {"t", "T"} \X {"c", "C"}}

IsTimestamp(h) == h.kind = "ArrowDataType" /\ h.val.tag = "Timestamp"

TimestampSupported(t) ==
  /\ t.unit \in {"Microsecond", "Nanosecond"}
  /\ t.tz = None \/ (t.tz.some /\ t.tz.v \in UtcSpellings)

TimestampExpected(t) ==
  CASE t.unit = "Microsecond" /\ t.tz = None -> Primitive("TimestampNtz")
    [] t.unit = "Microsecond" /\ t.tz # None -> Primitive("Timestamp")
    [] t.unit = "Nanosecond" -> Primitive("TimestampNs")

C3_TimestampReverse ==
  /\ \A i \in Steps : IsTimestamp(hist[i]) =>
       /\ TimestampSupported(hist[i].val)
       /\ hist[i + 1].val = TimestampExpected(hist[i].val)
  /\ (IsTimestamp(Last) /\ Failed) =>
       /\ ~TimestampSupported(Last.val)
       /\ res = Err(SchemaError)
  /\ (IsTimestamp(Last) /\ ~TimestampSupported(Last.val) /\ res # NotRun) => Failed

C3_Witness ==
  /\ Len(hist) >= 2
  /\ hist[1].val = ArrowTimestamp("Nanosecond", Some(<<"U", "t", "c">>))
  /\ hist[2].val = Primitive("TimestampNs")

\* C4: in the arrow type made from a kernel type, every map, at any depth
\* and whatever the nullability of the field holding it, has the entry
\* field "key_value", not nullable, a struct of exactly the two fields
\* "key" (not nullable) and "value" (nullable as value_contains_null says).
RECURSIVE MapShape(_, _)
MapShape(l, a) ==
  CASE l.tag = "Primitive" -> TRUE
    [] l.tag = "Struct" ->
         /\ a.tag = "Struct" /\ Len(a.fields) = Len(l.fields)
         /\ \A i \in 1..Len(l.fields) :
              MapShape(l.fields[i].data_type, a.fields[i].data_type)
    [] l.tag = "Array" ->
         a.tag \in ListLikeTags /\ MapShape(l.element_type, a.field.data_type)
    [] l.tag = "Dictionary" ->
         /\ a.tag = "Dictionary"
         /\ MapShape(l.key_type, a.key_type)
         /\ MapShape(l.value_type, a.value_type)
    [] l.tag = "Map" ->
         /\ a.tag = "Map"
         /\ a.field.name = "key_value" /\ ~a.field.nullable
         /\ a.field.data_type.tag = "Struct"
         /\ Len(a.field.data_type.fields) = 2
         /\ LET kv == a.field.data_type.fields
            IN  /\ kv[1].name = "key" /\ ~kv[1].nullable
                /\ kv[2].name = "value"
                /\ kv[2].nullable = l.value_contains_null
                /\ MapShape(l.key_type, kv[1].data_type)
                /\ MapShape(l.value_type, kv[2].data_type)

C4_MapShape ==
  \A i \in ForwardSteps : MapShape(AsType(hist[i]), AsType(hist[i + 1]))

\* a map with a nullable value, held by a nullable field of a struct
C4_Witness ==
  /\ Len(hist) >= 2
  /\ hist[1].kind = "DataType"
  /\ hist[1].val.tag = "Struct"
  /\ \E i \in 1..Len(hist[1].val.fields) :
       /\ hist[1].val.fields[i].nullable
       /\ hist[1].val.fields[i].data_type.tag = "Map"
       /\ hist[1].val.fields[i].data_type.value_contains_null
       /\ hist[2].val.fields[i].data_type.tag = "Map"
       /\ ~hist[2].val.fields[i].data_type.field.nullable

\* C5: a struct or schema conversion that succeeds, in either direction,
\* keeps the number of fields and, position by position, each field's name
\* and nullability.
RECURSIVE FieldsPreserved(_, _)
FieldsPreserved(x, y) ==
  CASE x.tag = "Struct" ->
         /\ y.tag = "Struct" /\ Len(y.fields) = Len(x.fields)
         /\ \A i \in 1..Len(x.fields) :
              /\ y.fields[i].name = x.fields[i].name
              /\ y.fields[i].nullable = x.fields[i].nullable
              /\ FieldsPreserved(x.fields[i].data_type, y.fields[i].data_type)
    \* kernel containers, forward
    [] x.tag = "Array" -> FieldsPreserved(x.element_type, y.field.data_type)
    [] x.tag = "Map" /\ "key_type" \in DOMAIN x ->
         /\ FieldsPreserved(x.key_type, y.field.data_type.fields[1].data_type)
         /\ FieldsPreserved(x.value_type, y.field.data_type.fields[2].data_type)
    \* arrow containers, reverse
    [] x.tag \in ListLikeTags -> FieldsPreserved(x.field.data_type, y.element_type)
    [] x.tag = "Map" /\ "field" \in DOMAIN x ->
         /\ FieldsPreserved(x.field.data_type.fields[1].data_type, y.key_type)
         /\ FieldsPreserved(x.field.data_type.fields[2].data_type, y.value_type)
    [] x.tag = "Dictionary" ->
         /\ FieldsPreserved(x.key_type, y.key_type)
         /\ FieldsPreserved(x.value_type, y.value_type)
    [] OTHER -> TRUE

C5_FieldsPreserved ==
  \A i \in Steps :
    /\ FieldsPreserved(AsType(hist[i]), AsType(hist[i + 1]))
    /\ hist[i].kind \in {"StructField", "ArrowField"} =>
         /\ hist[i + 1].val.name = hist[i].val.name
         /\ hist[i + 1].val.nullable = hist[i].val.nullable

\* an arrow schema of three fields of mixed nullability, converted to a
\* kernel struct and back to arrow
C5_Witness ==
  /\ Len(hist) = 3
  /\ hist[1].kind = "ArrowSchema"
  /\ Len(hist[1].val.fields) = 3
  /\ hist[1].val.fields[1].nullable # hist[1].val.fields[2].nullable
  /\ hist[2].kind = "StructType"
  /\ Len(hist[3].val.fields) = 3

\* C6: an arrow map whose child is not a struct of exactly two fields never
\* converts and never ends with an ArrowError: its conversion panics.
BadMapChild(h) ==
  /\ h.kind = "ArrowDataType" /\ h.val.tag = "Map"
  /\ \/ h.val.field.data_type.tag # "Struct"
     \/ Len(h.val.field.data_type.fields) # 2

C6_BadMapChildIsFatal ==
  /\ \A i \in Steps : ~BadMapChild(hist[i])
  /\ (BadMapChild(Last) /\ Failed) => IsPanic(res)


\* C7: a conversion returns a whole tree or a failure: when the type of a
\* struct child, list element, map key or value, or dictionary key or value,
\* at any depth below the input, does not convert, the conversion of the
\* input fails and returns no value; a schema that converts has all its
\* fields; the input is left as it was.
\* the child types of an arrow type, in the order the code converts them
ArrowChildren(a) ==
  CASE a.tag = "Struct" -> [i \in 1..Len(a.fields) |-> a.fields[i].data_type]
    [] a.tag \in ListLikeTags -> <<a.field.data_type>>
    [] a.tag = "Dictionary" -> <<a.key_type, a.value_type>>
    [] a.tag = "Map" /\ a.field.data_type.tag = "Struct" ->
         LET kv == a.field.data_type.fields
         IN  [i \in 1..(IF Len(kv) < 2 THEN Len(kv) ELSE 2) |-> kv[i].data_type]
    [] OTHER -> <<>>

KernelChildren(l) ==
  CASE l.tag = "Struct" -> [i \in 1..Len(l.fields) |-> l.fields[i].data_type]
    [] l.tag = "Array" -> <<l.element_type>>
    [] l.tag \in {"Map", "Dictionary"} -> <<l.key_type, l.value_type>>
    [] OTHER -> <<>>

RECURSIVE ArrowDescendantFails(_), KernelDescendantFails(_)
ArrowDescendantFails(a) ==
  \E i \in 1..Len(ArrowChildren(a)) :
    \/ ~IsOk(ArrowToDataType(ArrowChildren(a)[i]))
    \/ ArrowDescendantFails(ArrowChildren(a)[i])

KernelDescendantFails(l) ==
  \E i \in 1..Len(KernelChildren(l)) :
    \/ ~IsOk(DataTypeToArrow(KernelChildren(l)[i]))
    \/ KernelDescendantFails(KernelChildren(l)[i])

DescendantFails(h) ==
  IF h.kind \in ArrowKinds
  THEN ArrowDescendantFails(AsType(h))
  ELSE KernelDescendantFails(AsType(h))

C7_Complete ==
  /\ \A i \in Steps :
       /\ ~DescendantFails(hist[i])
       /\ hist[i].kind \in {"StructType", "ArrowSchema"} =>
            Len(hist[i + 1].val.fields) = Len(hist[i].val.fields)
  /\ (DescendantFails(Last) /\ res # NotRun) => Failed

C7_AllOrNothing ==
  /\ []C7_Complete
  /\ [][hist'[1] = hist[1] /\ (Failed' => hist' = hist)]_vars

\* a schema whose first field converts and whose second field has a list
\* element of an unsupported type: the conversion fails
C7_Witness ==
  /\ Len(hist) = 1
  /\ hist[1].kind = "ArrowSchema"
  /\ Len(hist[1].val.fields) >= 2
  /\ IsOk(ArrowFieldToStructField(hist[1].val.fields[1]))
  /\ hist[1].val.fields[2].data_type.tag \in ListLikeTags
  /\ hist[1].val.fields[2].data_type.field.data_type = Arrow("Float16")
  /\ res = Err(SchemaError)

\* C8: kernel -> arrow keeps every metadata key, passes a string value
\* through and replaces any other value by its JSON text; arrow -> kernel
\* copies every entry as a string value.  So string-only metadata comes back
\* identical, and a value that was not a string comes back as the string of
\* its JSON text.
JsonText(val) ==
  CASE val = MdNumber(42) -> "42"
    [] val = MdBoolean(TRUE) -> "true"
    [] val = MdOther("[\"a\",1]") -> "[\"a\",1]"

MetadataForward(f, g) ==
  /\ DOMAIN g.metadata = DOMAIN f.metadata
  /\ \A k \in DOMAIN f.metadata :
       IF f.metadata[k].t = "String"
       THEN g.metadata[k] = f.metadata[k].s
       ELSE g.metadata[k] = JsonText(f.metadata[k])

MetadataReverse(g, f) ==
  /\ DOMAIN f.metadata = DOMAIN g.metadata
  /\ \A k \in DOMAIN g.metadata : f.metadata[k] = MdString(g.metadata[k])

AllStrings(md) == \A k \in DOMAIN md : md[k].t = "String"

C8_Metadata ==
  /\ \A i \in Steps :
       /\ hist[i].kind = "StructField" => MetadataForward(hist[i].val, hist[i + 1].val)
       /\ hist[i].kind = "ArrowField" => MetadataReverse(hist[i].val, hist[i + 1].val)
  /\ (hist[1].kind = "StructField" /\ Len(hist) >= 3) =>
       LET m1 == hist[1].val.metadata
           m3 == hist[3].val.metadata
       IN  /\ AllStrings(m1) => m3 = m1
           /\ \A k \in DOMAIN m1 :
                m1[k].t # "String" => m3[k] = MdString(JsonText(m1[k])) /\ m3[k] # m1[k]

C8_Witness ==
  /\ Len(hist) >= 3
  /\ hist[1].kind = "StructField"
  /\ "id" \in DOMAIN hist[1].val.metadata
  /\ hist[1].val.metadata["id"] = MdNumber(42)
  /\ hist[1].val.metadata["note"] = MdString("7")
  /\ hist[2].val.metadata["id"] = "42"
  /\ hist[3].val.metadata["id"] = MdString("42")
  /\ hist[3].val.metadata["note"] = MdString("7")

\* C9: every kernel dictionary made from an arrow dictionary is ordered; so
\* a kernel dictionary with ordered = false comes back from arrow with
\* ordered = true and the key and value types it had.
RECURSIVE DictionariesOrdered(_, _)
DictionariesOrdered(a, l) ==
  /\ a.tag = "Dictionary" => l.tag = "Dictionary" /\ l.ordered
  /\ \A i \in 1..Len(ArrowChildren(a)) :
       DictionariesOrdered(ArrowChildren(a)[i], KernelChildren(l)[i])

\* a kernel type that arrow can give back: dictionaries ordered, metadata
\* of every field strings only
RECURSIVE RoundTrips(_)
RoundTrips(l) ==
  /\ l.tag = "Dictionary" => l.ordered
  /\ l.tag = "Struct" => \A i \in 1..Len(l.fields) : AllStrings(l.fields[i].metadata)
  /\ \A i \in 1..Len(KernelChildren(l)) : RoundTrips(KernelChildren(l)[i])

C9_DictionaryOrdered ==
  /\ \A i \in ReverseSteps : DictionariesOrdered(AsType(hist[i]), AsType(hist[i + 1]))
  /\ ( /\ hist[1].kind = "DataType" /\ hist[1].val.tag = "Dictionary"
       /\ RoundTrips(hist[1].val.key_type) /\ RoundTrips(hist[1].val.value_type)
       /\ Len(hist) >= 3 ) =>
       hist[3].val = DictionaryOf(hist[1].val.key_type, hist[1].val.value_type, TRUE)

C9_Witness ==
  /\ Len(hist) >= 3
  /\ hist[1].val = DictionaryOf(Primitive("Integer"),
                                ArrayOf(Primitive("String"), TRUE), FALSE)
  /\ hist[2].val.tag = "Dictionary"
  /\ hist[3].val = DictionaryOf(Primitive("Integer"),
                                ArrayOf(Primitive("String"), TRUE), TRUE)

\* C10: a kernel type tree of primitives, structs with distinct field names
\* and string metadata, arrays, maps and ordered dictionaries converts to
\* arrow and back, and comes back equal; an array of T with element
\* nullability b is the arrow list of the field "item" of nullability b.
RoundTripInput(h) ==
  /\ h.kind \in KernelKinds
  /\ RoundTrips(AsType(h))
  /\ h.kind = "StructField" => AllStrings(h.val.metadata)

C10_RoundTrip ==
  /\ RoundTripInput(hist[1]) =>
       /\ ~Failed
       /\ Len(hist) >= 3 => hist[3] = hist[1]
  /\ \A i \in ForwardSteps :
       (hist[i].kind = "DataType" /\ hist[i].val.tag = "Array") =>
         /\ hist[i + 1].val.tag = "List"
         /\ hist[i + 1].val.field.name = "item"
         /\ hist[i + 1].val.field.nullable = hist[i].val.contains_null

\* array<struct<col: ..>> with nullable elements, there and back
C10_Witness ==
  /\ Len(hist) >= 3
  /\ hist[1].kind = "DataType"
  /\ hist[1].val.tag = "Array"
  /\ hist[1].val.contains_null
  /\ hist[1].val.element_type.tag = "Struct"
  /\ Len(hist[1].val.element_type.fields) = 1
  /\ hist[2].val.tag = "List"
  /\ hist[2].val.field.nullable
  /\ hist[3] = hist[1]

====
